---------------------------- MODULE Spec2Model ----------------------------
(***************************************************************************)
(* Model of distributed_embeddings/python/layers/dist_model_parallel.py:   *)
(* the sharding planner (DistEmbeddingStrategy), the weight load / dump    *)
(* and forward resharding of DistributedEmbedding, the lock-step load and  *)
(* the hybrid-parallel gradient routing.                                   *)
(*                                                                         *)
(* Conventions.  Python lists are sequences; the VALUES kept in them       *)
(* (table ids, input ids, ranks, positions) are the 0-based numbers the    *)
(* program uses, so element i of a Python list l is l[i + 1] here.         *)
(* An optional argument is None (the empty tuple) or Some(x) (<<x>>).      *)
(***************************************************************************)
EXTENDS Integers, Sequences, FiniteSets, TLC

(***************************************************************************)
(* Bounds of the model.                                                    *)
(***************************************************************************)
MaxTables == 3
MaxWorld == 3
MaxInputDim == 2
MaxOutputDim == 3
MaxThreshold == 3
\* the column slicer on its own
MaxSliceInputDim == 3
MaxSliceOutputDim == 6
MaxSliceWorld == 5
MaxSliceThreshold == 8
\* the memory_optimized assignment on its own
MaxTablesOpt == 4
MaxOutputDimOpt == 4
MaxThresholdOpt == 2
\* rows per worker in a batch passed to call
LocalBatch == 2
\* the gradient tape: number of sources, and the values local gradients start from
MaxSources == 3
MaxGrad == 2
\* get_weights at the scale of its chunking threshold: number of workers
MaxChunkWorld == 3
\* plans over tables that may be empty: tables, input_dim, output_dim
MaxTablesOwn == 4
MaxInputDimOwn == 1
MaxOutputDimOwn == 2

None == <<>>
Some(x) == <<x>>

Min(a, b) == IF a <= b THEN a ELSE b
Max(a, b) == IF a >= b THEN a ELSE b

(***************************************************************************)
(* Python list helpers.                                                    *)
(***************************************************************************)
\* A list built by a comprehension, as an explicit tuple.  (TLC keeps a
\* function constructor unevaluated, and an EXCEPT stacked on such a value
\* is not applied reliably; every list of the model is an explicit tuple.)
List(f) == f \o <<>>

\* range(n) as a list: [0, 1, ..., n-1]
Range(n) == List([i \in 1..n |-> i - 1])

\* l[start::step] for 0 <= start, step >= 1
Stride(l, start, step) ==
  LET n == IF start >= Len(l) THEN 0 ELSE ((Len(l) - start - 1) \div step) + 1
  IN List([k \in 1..n |-> l[start + (k - 1) * step + 1]])

\* l.count(x)
Count(l, x) == Cardinality({i \in 1..Len(l) : l[i] = x})

\* l[:n]
Prefix(l, n) == SubSeq(l, 1, Min(n, Len(l)))

RECURSIVE Flatten(_)
\* [item for sublist in ll for item in sublist]
Flatten(ll) == IF ll = <<>> THEN <<>> ELSE Head(ll) \o Flatten(Tail(ll))

RECURSIVE SumSeq(_)
SumSeq(l) == IF l = <<>> THEN 0 ELSE Head(l) + SumSeq(Tail(l))

Reverse(l) == List([i \in 1..Len(l) |-> l[Len(l) + 1 - i]])

RECURSIVE ListLess(_, _)
\* Python's  a < b  on lists of integers (lexicographic, a proper prefix is less)
ListLess(a, b) ==
  IF b = <<>> THEN FALSE
  ELSE IF a = <<>> THEN TRUE
  ELSE IF Head(a) # Head(b) THEN Head(a) < Head(b)
  ELSE ListLess(Tail(a), Tail(b))

\* Python's  a < b  on (size, id) tuples
PairLess(a, b) == a[1] < b[1] \/ (a[1] = b[1] /\ a[2] < b[2])

\* Python's  a < b  on the [total, ids] lists of the greedy assignment
ResLess(a, b) == a[1] < b[1] \/ (a[1] = b[1] /\ ListLess(a[2], b[2]))

RECURSIVE InsertPair(_, _)
InsertPair(x, s) ==
  IF s = <<>> THEN <<x>>
  ELSE IF PairLess(x, Head(s)) THEN <<x>> \o s
  ELSE <<Head(s)>> \o InsertPair(x, Tail(s))

RECURSIVE SortedPairs(_)
\* sorted(pairs): ascending; the sort is stable, so an element goes after its equals
SortedPairs(l) == IF l = <<>> THEN <<>> ELSE InsertPair(l[Len(l)], SortedPairs(Prefix(l, Len(l) - 1)))

RECURSIVE InsertRes(_, _)
InsertRes(x, s) ==
  IF s = <<>> THEN <<x>>
  ELSE IF ResLess(x, Head(s)) THEN <<x>> \o s
  ELSE <<Head(s)>> \o InsertRes(x, Tail(s))

RECURSIVE SortedRes(_)
SortedRes(l) == IF l = <<>> THEN <<>> ELSE InsertRes(l[Len(l)], SortedRes(Prefix(l, Len(l) - 1)))

(***************************************************************************)
(* DistEmbeddingStrategy.maybe_slice_table_column                          *)
(***************************************************************************)
RECURSIVE num_slices_loop(_, _, _, _)
\* while table_size > column_slice_threshold: num_slices *= 2; table_size /= 2
\* The halved size is the exact quotient table_size / num_slices (halving a
\* float is exact), so the test is table_size > threshold * num_slices.  The
\* count is only used through min(num_slices, world_size, output_dim), so the
\* doubling is cut at cap >= max(2, world_size, output_dim): with a threshold
\* of 0 the program doubles until the float underflows to 0.0.
num_slices_loop(table_size, threshold, num_slices, cap) ==
  IF table_size > threshold * num_slices /\ num_slices < cap
  THEN num_slices_loop(table_size, threshold, 2 * num_slices, cap)
  ELSE num_slices

\* maybe_slice_table_column with the remainder columns lost: every slice
\* gets output_dim // num_slices columns
maybe_slice_table_column_no_remainder(orig_config, column_slice_threshold, world_size) ==
  LET table_size == orig_config.input_dim * orig_config.output_dim
      cap == Max(2, Max(world_size, orig_config.output_dim))
      doubled == IF column_slice_threshold = None THEN 1
                 ELSE num_slices_loop(table_size, column_slice_threshold[1], 1, cap)
  IN IF doubled = 1 THEN <<orig_config>>
     ELSE LET num_slices == Min(doubled, Min(world_size, orig_config.output_dim))
          IN List([i \in 1..num_slices |->
                [orig_config EXCEPT !.output_dim = orig_config.output_dim \div num_slices]])

maybe_slice_table_column(orig_config, column_slice_threshold, world_size) ==
  LET table_size == orig_config.input_dim * orig_config.output_dim
      cap == Max(2, Max(world_size, orig_config.output_dim))
      doubled == IF column_slice_threshold = None THEN 1
                 ELSE num_slices_loop(table_size, column_slice_threshold[1], 1, cap)
  IN IF doubled = 1 THEN <<orig_config>>
     ELSE LET num_slices == Min(doubled, Min(world_size, orig_config.output_dim))
              column_per_slice == orig_config.output_dim \div num_slices
              remainder == orig_config.output_dim % num_slices
          IN List([i \in 1..num_slices |->
                [orig_config EXCEPT !.output_dim =
                    column_per_slice + (IF i - 1 < remainder THEN 1 ELSE 0)]])

(***************************************************************************)
(* DistEmbeddingStrategy.create_sliced_configs                             *)
(***************************************************************************)
sliced_configs_of(global_configs, world_size, column_slice_threshold) ==
  List([t \in 1..Len(global_configs) |->
     maybe_slice_table_column(global_configs[t], column_slice_threshold, world_size)])

RECURSIVE out_ranges_loop(_, _, _)
\* for input_id, table_id in enumerate(input_table_map): ... (input_id is 0-based)
out_ranges_loop(sliced_configs, input_table_map, k) ==
  IF k > Len(input_table_map) THEN <<>>
  ELSE (IF Len(sliced_configs[input_table_map[k] + 1]) > 1
        THEN << <<k - 1, k - 1 + Len(sliced_configs[input_table_map[k] + 1])>> >>
        ELSE <<>>)
       \o out_ranges_loop(sliced_configs, input_table_map, k + 1)

create_sliced_configs(global_configs, world_size, column_slice_threshold, input_table_map) ==
  LET sliced_configs == sliced_configs_of(global_configs, world_size, column_slice_threshold)
  IN [sliced_configs |-> sliced_configs,
      sliced_out_ranges |-> out_ranges_loop(sliced_configs, input_table_map, 1)]

(***************************************************************************)
(* DistEmbeddingStrategy.apply_stragety                                    *)
(***************************************************************************)
\* global_ids: table id i once per slice of table i
global_ids_of(sliced_configs) ==
  Flatten(List([t \in 1..Len(sliced_configs) |->
                  List([j \in 1..Len(sliced_configs[t]) |-> t - 1])]))

\* table_sizes: input_dim * output_dim of every slice, in the same order
table_sizes_of(sliced_configs) ==
  Flatten(List([t \in 1..Len(sliced_configs) |->
             List([j \in 1..Len(sliced_configs[t]) |->
                sliced_configs[t][j].input_dim * sliced_configs[t][j].output_dim])]))

\* zip(table_sizes, global_ids)
size_id_pairs(sliced_configs) ==
  LET ids == global_ids_of(sliced_configs)
      sizes == table_sizes_of(sliced_configs)
  IN List([i \in 1..Len(ids) |-> <<sizes[i], ids[i]>>])

\* basic_ids striding by world_size + 1: some slices reach no worker
basic_ids_wide_stride(world_size, sliced_configs) ==
  LET global_ids == global_ids_of(sliced_configs)
  IN List([w \in 1..world_size |-> Stride(global_ids, w - 1, world_size + 1)])

basic_ids(world_size, sliced_configs) ==
  LET global_ids == global_ids_of(sliced_configs)
  IN List([w \in 1..world_size |-> Stride(global_ids, w - 1, world_size)])

\* memory_balanced_ids without the backward half of the zigzag
memory_balanced_ids_forward_only(world_size, sliced_configs) ==
  LET desc == Reverse(SortedPairs(size_id_pairs(sliced_configs)))
      sorted_ids == List([i \in 1..Len(desc) |-> desc[i][2]])
  IN List([w \in 1..world_size |->
        Stride(sorted_ids, w - 1, 2 * world_size)
        \o (IF w = 1 THEN Stride(sorted_ids, world_size, 1) ELSE <<>>)])

memory_balanced_ids(world_size, sliced_configs) ==
  LET desc == Reverse(SortedPairs(size_id_pairs(sliced_configs)))
      sorted_ids == List([i \in 1..Len(desc) |-> desc[i][2]])
  IN List([w \in 1..world_size |->
        Stride(sorted_ids, w - 1, 2 * world_size)
        \o Stride(sorted_ids, 2 * world_size - 1 - (w - 1), 2 * world_size)])

\* res[0][0] += cur[0]; res[0][1].append(cur[1]); res = sorted(res)
\* one step of the loop without res = sorted(res): worker 0 takes every slice
greedy_step_unsorted(res, cur) ==
  [res EXCEPT ![1] = <<res[1][1] + cur[1], Append(res[1][2], cur[2])>>]

greedy_step(res, cur) ==
  SortedRes([res EXCEPT ![1] = <<res[1][1] + cur[1], Append(res[1][2], cur[2])>>])

RECURSIVE greedy_loop(_, _)
\* while sorted_pairs: cur = sorted_pairs.pop(); <greedy_step>
greedy_loop(sorted_pairs, res) ==
  IF sorted_pairs = <<>> THEN res
  ELSE greedy_loop(Prefix(sorted_pairs, Len(sorted_pairs) - 1),
                   greedy_step(res, sorted_pairs[Len(sorted_pairs)]))

memory_optimized_ids(world_size, sliced_configs) ==
  LET sorted_pairs == SortedPairs(size_id_pairs(sliced_configs))
      res == greedy_loop(sorted_pairs, List([w \in 1..world_size |-> <<0, <<>> >>]))
  IN List([w \in 1..world_size |-> res[w][2]])

\* The else branch formats its message with the name `strategy`, which is not
\* bound inside apply_stragety: evaluating it raises NameError, not ValueError.
apply_stragety(mode, world_size, sliced_configs) ==
  IF mode = "basic"
    THEN [raised |-> "none", divided_ids |-> basic_ids(world_size, sliced_configs)]
  ELSE IF mode = "memory_balanced"
    THEN [raised |-> "none", divided_ids |-> memory_balanced_ids(world_size, sliced_configs)]
  ELSE IF mode = "memory_optimized"
    THEN [raised |-> "none", divided_ids |-> memory_optimized_ids(world_size, sliced_configs)]
  ELSE [raised |-> "NameError", divided_ids |-> <<>>]

(***************************************************************************)
(* DistEmbeddingStrategy.__init__                                          *)
(***************************************************************************)
\* The attributes an instance has after the single-worker return, and after
\* the full constructor.
single_worker_attrs ==
  {"global_configs", "strategy", "local_configs", "local_input_table_map",
   "input_ids_list", "table_ids_list"}

all_attrs ==
  single_worker_attrs \cup
  {"sliced_out_ranges", "local_map_list", "local_configs_list", "widths_list_flat",
   "rev_global_input_ids"}

\* An instance none of whose attributes is set yet (also: no instance at all,
\* when the constructor raised).
no_strategy ==
  [raised |-> "none", attrs |-> {}, global_configs |-> <<>>, strategy |-> "",
   local_configs |-> <<>>, local_input_table_map |-> <<>>, input_ids_list |-> <<>>,
   table_ids_list |-> <<>>, sliced_out_ranges |-> <<>>, local_map_list |-> <<>>,
   local_configs_list |-> <<>>, widths_list_flat |-> <<>>, rev_global_input_ids |-> <<>>]

\* [k for k, mapped_idx in enumerate(input_table_map) if table_idx == mapped_idx]
inputs_of_table(input_table_map, table_idx) ==
  SelectSeq(Range(Len(input_table_map)), LAMBDA k : input_table_map[k + 1] = table_idx)

\* One visit of the inner loop body, for position m (0-based) and table_idx:
\*   rank_configs.append(sliced_configs[table_idx].pop(0)), then for every input
\*   k mapped to table_idx: rank_widths.append(rank_configs[-1]['output_dim']),
\*   rank_input_ids.append(k), rank_input_map.append(m)
table_body(acc, m, table_idx, ks) ==
  [sliced_configs |-> [acc.sliced_configs EXCEPT ![table_idx + 1] = Tail(@)],
   rank_configs |-> Append(acc.rank_configs, Head(acc.sliced_configs[table_idx + 1])),
   rank_widths |-> acc.rank_widths
                   \o List([i \in 1..Len(ks) |->
                              Head(acc.sliced_configs[table_idx + 1]).output_dim]),
   rank_input_ids |-> acc.rank_input_ids \o ks,
   rank_input_map |-> acc.rank_input_map \o List([i \in 1..Len(ks) |-> m])]

RECURSIVE table_loop(_, _, _, _)
\* for m, table_idx in enumerate(rank_table_ids): the body, from position m on
\* (m is 0-based); acc carries the rank's lists and the shared sliced_configs,
\* from which every visit pops the first remaining slice of its table.
table_loop(rank_table_ids, m, input_table_map, acc) ==
  IF m >= Len(rank_table_ids) THEN acc
  ELSE table_loop(rank_table_ids, m + 1, input_table_map,
                  table_body(acc, m, rank_table_ids[m + 1],
                             inputs_of_table(input_table_map, rank_table_ids[m + 1])))

\* The outer loop body for one rank: r is what the inner loop left.
rank_body(acc, r) ==
  [sliced_configs |-> r.sliced_configs,
   local_configs_list |-> Append(acc.local_configs_list, r.rank_configs),
   widths_list_flat |-> acc.widths_list_flat \o r.rank_widths,
   input_ids_list |-> Append(acc.input_ids_list, r.rank_input_ids),
   local_map_list |-> Append(acc.local_map_list, r.rank_input_map)]

RECURSIVE rank_loop(_, _, _, _)
\* for rank_table_ids in self.table_ids_list: the body, from rank w on (1-based)
rank_loop(table_ids_list, w, input_table_map, acc) ==
  IF w > Len(table_ids_list) THEN acc
  ELSE rank_loop(table_ids_list, w + 1, input_table_map,
         rank_body(acc,
           table_loop(table_ids_list[w], 0, input_table_map,
             [sliced_configs |-> acc.sliced_configs, rank_configs |-> <<>>,
              rank_widths |-> <<>>, rank_input_ids |-> <<>>, rank_input_map |-> <<>>])))

\* [index for _, index in sorted(zip(worker_order_input_ids, range(len(...))))]
rev_global_input_ids_of(worker_order_input_ids) ==
  LET s == SortedPairs(List([i \in 1..Len(worker_order_input_ids) |->
                                <<worker_order_input_ids[i], i - 1>>]))
  IN List([i \in 1..Len(s) |-> s[i][2]])

\* self.local_map_list[rank], self.local_configs_list[rank]
\* local_of that always takes rank 0's entry
local_of_rank0(by_rank, rank) == by_rank[1]

local_of(by_rank, rank) == by_rank[rank + 1]

DistEmbeddingStrategy(embeddings_, world_size_, rank, strategy_, input_table_map_, column_slice_threshold_) ==
  LET global_configs == embeddings_
      itm == IF input_table_map_ = None THEN Range(Len(embeddings_)) ELSE input_table_map_[1]
  IN IF world_size_ = 1
     THEN [no_strategy EXCEPT
             !.attrs = single_worker_attrs,
             !.global_configs = global_configs,
             !.strategy = strategy_,
             !.local_configs = global_configs,
             !.local_input_table_map = itm,
             !.input_ids_list = <<Range(Len(itm))>>,
             !.table_ids_list = <<Range(Len(embeddings_))>>]
     ELSE LET sl == create_sliced_configs(global_configs, world_size_,
                                          column_slice_threshold_, itm)
              assigned == apply_stragety(strategy_, world_size_, sl.sliced_configs)
          IN IF assigned.raised # "none"
             THEN [no_strategy EXCEPT !.raised = assigned.raised]
             ELSE LET r == rank_loop(assigned.divided_ids, 1, itm,
                              [sliced_configs |-> sl.sliced_configs,
                               local_configs_list |-> <<>>, widths_list_flat |-> <<>>,
                               input_ids_list |-> <<>>, local_map_list |-> <<>>])
                  IN [raised |-> "none",
                      attrs |-> all_attrs,
                      global_configs |-> global_configs,
                      strategy |-> strategy_,
                      sliced_out_ranges |-> sl.sliced_out_ranges,
                      table_ids_list |-> assigned.divided_ids,
                      input_ids_list |-> r.input_ids_list,
                      local_map_list |-> r.local_map_list,
                      local_configs_list |-> r.local_configs_list,
                      widths_list_flat |-> r.widths_list_flat,
                      local_input_table_map |-> local_of(r.local_map_list, rank),
                      rev_global_input_ids |->
                        rev_global_input_ids_of(Flatten(r.input_ids_list)),
                      local_configs |-> local_of(r.local_configs_list, rank)]

(***************************************************************************)
(* DistributedEmbedding.set_weights.  A matrix is the list of its rows.    *)
(***************************************************************************)
\* default of the argument chunk
chunk_default == 134217728

\* arr.shape, arr.size
Shape(arr) == <<Len(arr), IF arr = <<>> THEN 0 ELSE Len(arr[1])>>
Size(arr) == Shape(arr)[1] * Shape(arr)[2]

\* weight[:, start:end]
Columns(weight, start, end) ==
  List([i \in 1..Len(weight) |-> SubSeq(weight[i], start + 1, end)])

\* math.ceil(a / b) for positive b
Ceil(a, b) == (a + b - 1) \div b

\* slice_weight_for_rank that ignores the offset among a rank's own slices
slice_weight_for_rank_no_offset(weight, info, global_rank, offset) ==
  LET num_columns == Shape(weight)[2]
      num_slices == SumSeq(info)
      column_per_slice == num_columns \div num_slices
      remainder == num_columns % num_slices
      rank == SumSeq(Prefix(info, global_rank))
      start == column_per_slice * rank + Min(rank, remainder)
      end == column_per_slice * (rank + 1) + Min(rank + 1, remainder)
  IN Columns(weight, start, end)

slice_weight_for_rank(weight, info, global_rank, offset) ==
  LET num_columns == Shape(weight)[2]
      num_slices == SumSeq(info)
      column_per_slice == num_columns \div num_slices
      remainder == num_columns % num_slices
      rank == SumSeq(Prefix(info, global_rank)) + offset
      start == column_per_slice * rank + Min(rank, remainder)
      end == column_per_slice * (rank + 1) + Min(rank + 1, remainder)
  IN Columns(weight, start, end)

\* lines 334-361: the slices of the global weights this rank's tables hold
local_slices(weights, table_ids_list, rank) ==
  LET slice_info == List([tid \in 1..Len(weights) |->
                       List([r \in 1..Len(table_ids_list) |->
                          Count(table_ids_list[r], tid - 1)])])
      rank_ids == table_ids_list[rank + 1]
      index_offset == List([i \in 1..Len(rank_ids) |->
                         Count(Prefix(rank_ids, i - 1), rank_ids[i])])
  IN List([i \in 1..Len(rank_ids) |->
        slice_weight_for_rank(weights[rank_ids[i] + 1], slice_info[rank_ids[i] + 1],
                              rank, index_offset[i])])

RECURSIVE scatter_loop(_, _, _, _, _)
\* for i in range(num_chunks): weight.scatter_update(IndexedSlices(
\*   values=arr[start:end], indices=range(start, end), dense_shape=weight.shape))
\* The chunks are laid out from weight.shape and arr is only sliced: rows of
\* arr beyond those of weight are never read.  scatter_update wants one row
\* of the variable's width per index and is an InvalidArgumentError
\* otherwise, with the chunks before it already written.
scatter_loop(weight, arr, i, num_chunks, chunk_size_dim0) ==
  IF i >= num_chunks THEN [raised |-> "none", weight |-> weight]
  ELSE LET last_size == Len(weight) - chunk_size_dim0 * (num_chunks - 1)
           start == i * chunk_size_dim0
           end == start + (IF i < num_chunks - 1 THEN chunk_size_dim0 ELSE last_size)
           values == SubSeq(arr, start + 1, Min(end, Len(arr)))
       IN IF Len(values) # end - start
             \/ \E k \in 1..Len(values) : Len(values[k]) # Shape(weight)[2]
          THEN [raised |-> "InvalidArgumentError", weight |-> weight]
          ELSE scatter_loop(List([row \in 1..Len(weight) |->
                               IF row - 1 >= start /\ row - 1 < end THEN arr[row]
                               ELSE weight[row]]),
                            arr, i + 1, num_chunks, chunk_size_dim0)

\* the body of the loop over zip(self.weights, weights): what it raises and
\* the value weight holds afterwards.  weight.assign(arr) checks the shape
\* (ValueError); the chunked branch does not, and chunk < weight.shape[1]
\* makes weight.shape[0] / chunk_size_dim0 a division by zero.
assign(weight, arr, chunk) ==
  IF Size(arr) <= chunk
  THEN IF Shape(arr) # Shape(weight) THEN [raised |-> "ValueError", weight |-> weight]
       ELSE [raised |-> "none", weight |-> arr]
  ELSE LET chunk_size_dim0 == chunk \div Shape(weight)[2]
       IN IF chunk_size_dim0 = 0 THEN [raised |-> "ZeroDivisionError", weight |-> weight]
          ELSE scatter_loop(weight, arr, 0, Ceil(Len(weight), chunk_size_dim0),
                            chunk_size_dim0)

\* for weight, arr in zip(self.weights, weights): the variables are assigned
\* one after the other; the first assignment that raises ends the loop, with
\* the variables before it assigned, its own variable as far as it was
\* written and the others untouched.
assign_loop(self_weights, arrs, chunk) ==
  LET n == Min(Len(self_weights), Len(arrs))
      wrong == {i \in 1..n : assign(self_weights[i], arrs[i], chunk).raised # "none"}
      \* the first variable whose assignment raises, or n + 1
      stop == IF wrong = {} THEN n + 1 ELSE CHOOSE i \in wrong : \A j \in wrong : i <= j
  IN [raised |-> IF wrong = {} THEN "none"
                 ELSE assign(self_weights[stop], arrs[stop], chunk).raised,
      weights |-> List([i \in 1..Len(self_weights) |->
                    IF i <= stop /\ i <= n THEN assign(self_weights[i], arrs[i], chunk).weight
                    ELSE self_weights[i]])]

\* set_weights without its broadcasts: the values self.weights hold afterwards.
\* weights[0] of a rank without tables is an IndexError.
set_weights(self_weights, table_ids_list, world_size, rank, weights, chunk) ==
  IF world_size > 1 /\ table_ids_list[rank + 1] = <<>>
  THEN [raised |-> "IndexError", weights |-> self_weights]
  ELSE assign_loop(self_weights,
                   IF world_size > 1 THEN local_slices(weights, table_ids_list, rank)
                   ELSE weights,
                   chunk)

(***************************************************************************)
(* DistributedEmbedding.get_weights.                                       *)
(***************************************************************************)
chunking_threshold == 2000000000

\* tf.reshape(w, [-1]) of a matrix, and tf.reshape(flat, shape)
Flat(w) == Flatten(w)
Reshape(flat, shape) ==
  List([i \in 1..shape[1] |-> SubSeq(flat, (i - 1) * shape[2] + 1, i * shape[2])])

RECURSIVE split_1d(_, _)
\* _split_1d below its own chunking threshold: tf.split(tensor, lengths)
split_1d(tensor, lengths) ==
  IF lengths = <<>> THEN <<>>
  ELSE <<SubSeq(tensor, 1, lengths[1])>>
       \o split_1d(SubSeq(tensor, lengths[1] + 1, Len(tensor)), Tail(lengths))

\* tf.concat(list, axis=1) of matrices
ConcatColumns(matrices) ==
  IF matrices = <<>> THEN <<>>
  ELSE List([i \in 1..Len(matrices[1]) |->
          Flatten(List([k \in 1..Len(matrices) |-> matrices[k][i]]))])

config_elements(local_configs) ==
  SumSeq(List([i \in 1..Len(local_configs) |->
                 local_configs[i].input_dim * local_configs[i].output_dim]))

RECURSIVE product_in_units(_, _, _, _, _)
\* k * rem + (carries * b + acc) as <<carries, acc>> with acc < b, for
\* rem < b.  Python's integers are unbounded; the product is taken in units
\* of b so that no intermediate value leaves 32 bits.
product_in_units(k, rem, b, acc, carries) ==
  IF k = 0 THEN <<carries, acc>>
  ELSE IF acc >= b - rem
    THEN product_in_units(k - 1, rem, b, acc - (b - rem), carries + 1)
    ELSE product_in_units(k - 1, rem, b, acc + rem, carries)

\* math.ceil(n * a / b)
CeilOfProduct(n, a, b) ==
  LET p == product_in_units(n, a % b, b, 0, 0)
  IN n * (a \div b) + p[1] + (IF p[2] > 0 THEN 1 ELSE 0)

RECURSIVE num_chunks_loop(_, _, _, _)
\* for local_configs in local_configs_list: num_chunks = max(num_chunks, ceil(...))
num_chunks_loop(local_configs_list, world_size, k, num_chunks) ==
  IF k > Len(local_configs_list) THEN num_chunks
  ELSE num_chunks_loop(local_configs_list, world_size, k + 1,
         Max(num_chunks, CeilOfProduct(world_size, config_elements(local_configs_list[k]),
                                       chunking_threshold)))

\* lines 436-438: chunk_size, last_size, chunk_sizes
chunk_sizes_of(num_elements, num_chunks) ==
  LET chunk_size == num_elements \div num_chunks
      last_size == num_elements - chunk_size * (num_chunks - 1)
  IN List([i \in 1..num_chunks |-> IF i < num_chunks THEN chunk_size ELSE last_size])

\* lines 435-439: what a rank hands to the allgathers
local_chunks(self_weights, local_configs_list, world_size) ==
  LET num_chunks == num_chunks_loop(local_configs_list, world_size, 1, 1)
      local_weights == Flatten(List([i \in 1..Len(self_weights) |-> Flat(self_weights[i])]))
      chunk_sizes == chunk_sizes_of(Len(local_weights), num_chunks)
  IN [chunk_sizes |-> chunk_sizes, local_weights |-> split_1d(local_weights, chunk_sizes)]

RECURSIVE InsertById(_, _)
InsertById(x, s) ==
  IF s = <<>> THEN <<x>>
  ELSE IF x[1] < s[1][1] THEN <<x>> \o s
  ELSE <<s[1]>> \o InsertById(x, Tail(s))

RECURSIVE SortedById(_)
\* sorted(pairs, key=lambda x: x[0]): stable
SortedById(l) ==
  IF l = <<>> THEN <<>> ELSE InsertById(l[Len(l)], SortedById(Prefix(l, Len(l) - 1)))

RECURSIVE concat_loop(_, _, _, _)
\* while ids_and_weights: cur = ids_and_weights.pop(0); ...
concat_loop(ids_and_weights, cur_id, cur_list, result) ==
  IF ids_and_weights = <<>> THEN Append(result, ConcatColumns(cur_list))
  ELSE LET cur == Head(ids_and_weights)
       IN IF cur[1] = cur_id
          THEN concat_loop(Tail(ids_and_weights), cur_id, Append(cur_list, cur[2]), result)
          ELSE concat_loop(Tail(ids_and_weights), cur[1], <<cur[2]>>,
                           Append(result, ConcatColumns(cur_list)))

\* lines 441-485, given what every rank handed to the allgathers
gathered_weights(gathered, table_ids_list, local_configs_list, world_size, rank, all_ranks) ==
  LET num_chunks == num_chunks_loop(local_configs_list, world_size, 1, 1)
      all_sizes == Flatten(List([q \in 1..world_size |-> gathered[q].chunk_sizes]))
      chunks == IF all_ranks \/ rank = 0
                THEN Flatten(List([i \in 1..num_chunks |->
                       split_1d(Flatten(List([q \in 1..world_size |->
                                                gathered[q].local_weights[i]])),
                                Stride(all_sizes, i - 1, num_chunks))]))
                ELSE <<>>
      local_weights == List([i \in 1..world_size |->
                         Flatten(Stride(chunks, i - 1, world_size))])
      weights == Flatten(List([q \in 1..world_size |->
                   LET local_shapes == List([c \in 1..Len(local_configs_list[q]) |->
                                          <<local_configs_list[q][c].input_dim,
                                            local_configs_list[q][c].output_dim>>])
                       local_sizes == List([c \in 1..Len(local_shapes) |->
                                         local_shapes[c][1] * local_shapes[c][2]])
                       flat_weights == split_1d(local_weights[q], local_sizes)
                   IN List([c \in 1..Len(local_shapes) |->
                         Reshape(flat_weights[c], local_shapes[c])])]))
      worker_order_table_ids == Flatten(table_ids_list)
      ids_and_weights == SortedById(List([i \in 1..Len(weights) |->
                                      <<worker_order_table_ids[i], weights[i]>>]))
  IN IF chunks = <<>> THEN <<>>
     ELSE concat_loop(ids_and_weights, 0, <<>>, <<>>)

(***************************************************************************)
(* DistributedEmbedding.call, _call_base and _concat_column_slice_outputs. *)
(* An input is a 1-D batch of row indices; tensors travel as flat lists.   *)
(***************************************************************************)
\* self.local_embedding_layers[m](inp): the rows of the table at the indices
embedding_lookup(weight, inp) == List([i \in 1..Len(inp) |-> weight[inp[i] + 1]])

\* lines 494-500: the outputs on a single worker
call_single(self_weights, local_input_table_map, inputs) ==
  List([k \in 1..Min(Len(local_input_table_map), Len(inputs)) |->
     embedding_lookup(self_weights[local_input_table_map[k] + 1], inputs[k])])

\* lines 273-282: tf.concat(flat_inputs, 0) cut by global_splits, one part per
\* destination rank
dp_to_mp_parts(inputs, input_ids_list) ==
  List([q \in 1..Len(input_ids_list) |->
     Flatten(List([k \in 1..Len(input_ids_list[q]) |->
                     inputs[input_ids_list[q][k] + 1]]))])

\* local_splits[self.rank]: the flattened length of each input this rank serves
local_splits_of(inputs, rank_input_ids) ==
  List([k \in 1..Len(rank_input_ids) |-> Len(inputs[rank_input_ids[k] + 1])])

\* lines 283-288: the received indices as one [world_size * batch] tensor per
\* local input
mp_inputs(received, world_size, local_splits) ==
  LET rows == Reshape(received, <<world_size, Len(received) \div world_size>>)
  IN List([m \in 1..Len(local_splits) |->
        Flat(Columns(rows, SumSeq(Prefix(local_splits, m - 1)),
                     SumSeq(Prefix(local_splits, m))))])

\* lines 291-298: lookups, each reshaped to [world_size, -1], concatenated on
\* axis 1 and flattened: row q is what rank q gets back
mp_outputs(self_weights, local_input_table_map, mp_ins, world_size) ==
  LET mp_outs == List([m \in 1..Min(Len(local_input_table_map), Len(mp_ins)) |->
                   LET flat == Flat(embedding_lookup(
                                      self_weights[local_input_table_map[m] + 1], mp_ins[m]))
                   IN Reshape(flat, <<world_size, Len(flat) \div world_size>>)])
  IN ConcatColumns(mp_outs)

\* lines 302-310: cut what came back by widths_list_flat and reorder
dp_outputs(dp_outs, batch_size, world_size, widths_list_flat, rev_global_input_ids) ==
  LET local_bs == batch_size \div world_size
      num_elements == List([i \in 1..Len(widths_list_flat) |-> local_bs * widths_list_flat[i]])
      split_outs == split_1d(dp_outs, num_elements)
      worker_order_res == List([i \in 1..Len(split_outs) |->
                             Reshape(split_outs[i], <<local_bs, widths_list_flat[i]>>)])
  IN List([i \in 1..Len(rev_global_input_ids) |->
        worker_order_res[rev_global_input_ids[i] + 1]])

RECURSIVE concat_column_slice_outputs(_, _)
\* for start, end in sliced_out_ranges: outs[start:end] = [tf.concat(outs[start:end], -1)]
concat_column_slice_outputs(outs, sliced_out_ranges) ==
  IF sliced_out_ranges = <<>> THEN outs
  ELSE LET start == Head(sliced_out_ranges)[1]
           end == Min(Head(sliced_out_ranges)[2], Len(outs))
       IN concat_column_slice_outputs(
            SubSeq(outs, 1, start) \o <<ConcatColumns(SubSeq(outs, start + 1, end))>>
              \o SubSeq(outs, end + 1, Len(outs)),
            Tail(sliced_out_ranges))

(***************************************************************************)
(* set_weights(use_lock=True): the broadcasts around the assignment.       *)
(***************************************************************************)
\* for _ in range(self.rank): hvd.broadcast_object(0)
pre_broadcasts_none(rank) == 0

pre_broadcasts(rank) == rank

\* for _ in range(self.world_size - self.rank): hvd.broadcast_object(0)
post_broadcasts(world_size, rank) == world_size - rank

(***************************************************************************)
(* DistributedGradientTape.gradient.  A gradient is a dense tensor or an   *)
(* IndexedSlices; its values are one number, and a division is kept as the *)
(* exact quotient num / den.                                               *)
(***************************************************************************)
Tensor(values) ==
  [kind |-> "Tensor", values |-> values, indices |-> <<>>, dense_shape |-> <<>>]
IndexedSlices(values, indices, dense_shape) ==
  [kind |-> "IndexedSlices", values |-> values, indices |-> indices,
   dense_shape |-> dense_shape]

Quotient(num, den) == [num |-> num, den |-> den]

\* lines 542-546: the model-parallel gradient divided by hvd.size()
mp_gradient(grad, size) ==
  IF grad.kind = "IndexedSlices"
  THEN IndexedSlices(Quotient(grad.values, size), grad.indices, grad.dense_shape)
  ELSE Tensor(Quotient(grad.values, size))

RECURSIVE split_loop(_, _, _, _, _)
\* for grad, var in zip(gradients, sources): ...   (k is 1-based)
split_loop(gradients, sources, size, k, acc) ==
  IF k > Min(Len(gradients), Len(sources)) THEN acc
  ELSE split_loop(gradients, sources, size, k + 1,
         IF sources[k].synchronization = "NONE"
         THEN [acc EXCEPT !.mp_grads = Append(acc.mp_grads, mp_gradient(gradients[k], size)),
                          !.split_infos = Append(acc.split_infos,
                                                 <<TRUE, Len(acc.mp_grads)>>)]
         ELSE [acc EXCEPT !.dp_vars = Append(acc.dp_vars, sources[k]),
                          !.dp_grads = Append(acc.dp_grads, gradients[k]),
                          !.split_infos = Append(acc.split_infos,
                                                 <<FALSE, Len(acc.dp_grads)>>)])

gradient_split(gradients, sources, size) ==
  split_loop(gradients, sources, size, 1,
             [dp_vars |-> <<>>, dp_grads |-> <<>>, mp_grads |-> <<>>, split_infos |-> <<>>])

\* hvd.allreduce(g, name='dp_gradient_i', op=hvd.Average) given what every
\* rank handed in under that name
allreduce_average(contributions, size) ==
  Tensor(Quotient(SumSeq(List([q \in 1..Len(contributions) |-> contributions[q].values])),
                  size))

\* lines 557-562 with the mp gradients put first, whatever the source order
put_back_mp_first(split_infos, mp_grads, dp_grads) == mp_grads \o dp_grads

\* lines 557-562: put gradients back in original order
put_back(split_infos, mp_grads, dp_grads) ==
  List([i \in 1..Len(split_infos) |->
     IF split_infos[i][1] THEN mp_grads[split_infos[i][2] + 1]
     ELSE dp_grads[split_infos[i][2] + 1]])

(***************************************************************************)
(* State.                                                                  *)
(*   embeddings, world_size, strategy, input_table_map,                    *)
(*   column_slice_threshold : the arguments every worker passes (all       *)
(*                            workers run the same program);               *)
(*   entry : the class the program instantiates;                           *)
(*   objs  : per rank, the instance the worker holds;                      *)
(*   ret   : None, or Some(value a direct method call returned); for the   *)
(*           methods of the layer, per rank, None or Some(returned value); *)
(*   pc    : per rank, where the worker is in the method it is calling;    *)
(*   comm  : the collectives in flight, per collective and rank None or    *)
(*           Some(what the rank contributed);                              *)
(*   issued: per rank, how many broadcast_object calls it has issued;      *)
(*   weights, use_lock : the arguments of set_weights;                     *)
(*   all_ranks : the argument of get_weights;                              *)
(*   variables : per rank, the values of the layer's variables;            *)
(*   inputs : per rank, the list of index batches it passes to call;       *)
(*   sources, gradients : the variables differentiated and, per rank, the  *)
(*           local gradients the wrapped tape computes for them.           *)
(***************************************************************************)
VARIABLES embeddings, world_size, strategy, input_table_map, column_slice_threshold,
          entry, objs, ret, pc, comm, issued, weights, use_lock, all_ranks,
          variables, inputs, sources, gradients

inputVars == <<embeddings, world_size, strategy, input_table_map, column_slice_threshold, entry>>
callVars == <<pc, comm, issued, weights, use_lock, all_ranks, variables, inputs, sources, gradients>>
vars == <<inputVars, objs, ret, callVars>>

\* no method of the layer is being called
NoCalls ==
  /\ pc = <<>> /\ comm = <<>> /\ issued = <<>>
  /\ weights = <<>> /\ use_lock = FALSE /\ all_ranks = FALSE
  /\ variables = <<>> /\ inputs = <<>> /\ sources = <<>> /\ gradients = <<>>

Ranks == 0..(world_size - 1)

Config(i, o) == [input_dim |-> i, output_dim |-> o]
TableConfigs == {Config(i, o) : i \in 1..MaxInputDim, o \in 1..MaxOutputDim}
TableLists == UNION {[1..n -> TableConfigs] : n \in 1..MaxTables}
Supported == {"basic", "memory_balanced", "memory_optimized"}
StrategyNames == Supported \cup {"round_robin"}
Thresholds == {None} \cup {Some(n) : n \in 0..MaxThreshold}
\* None, or a list of one or two table ids
InputTableMaps(n) == {None} \cup {Some(<<n - 1, 0>>)}

(***************************************************************************)
(* DistributedEmbedding.__init__ (row_slice is left at its default, None). *)
(* hvd.size() and hvd.rank() are the arguments world_size_ and rank.       *)
(***************************************************************************)
\* config['synchronization'] = tf.VariableSynchronization.NONE
tag_local(config) ==
  [input_dim |-> config.input_dim, output_dim |-> config.output_dim,
   synchronization |-> "NONE"]

no_layer == [built |-> FALSE, raised |-> "none", strategy |-> no_strategy,
             local_embedding_layers |-> <<>>]

\* The loop over self.strategy.local_configs writes the tag into the very dicts
\* the strategy holds: local_configs is local_configs_list[rank] (or, on one
\* worker, global_configs), so those entries carry the tag afterwards.
tag_strategy(st, world_size_, rank) ==
  LET tagged == List([i \in 1..Len(st.local_configs) |-> tag_local(st.local_configs[i])])
  IN IF world_size_ = 1
     THEN [st EXCEPT !.local_configs = tagged, !.global_configs = tagged]
     ELSE [st EXCEPT !.local_configs = tagged, !.local_configs_list[rank + 1] = tagged]

DistributedEmbedding(embeddings_, world_size_, rank, strategy_, input_table_map_, column_slice_threshold_) ==
  IF strategy_ \notin {"basic", "memory_balanced", "memory_optimized"}
  THEN [no_layer EXCEPT !.built = TRUE, !.raised = "ValueError"]
  ELSE LET st == DistEmbeddingStrategy(embeddings_, world_size_, rank, strategy_,
                                       input_table_map_, column_slice_threshold_)
       IN IF st.raised # "none"
          THEN [no_layer EXCEPT !.built = TRUE, !.raised = st.raised]
          ELSE IF Len(st.global_configs) < world_size_
          THEN [no_layer EXCEPT !.built = TRUE, !.raised = "NotImplementedError"]
          ELSE LET tagged == tag_strategy(st, world_size_, rank)
               IN [built |-> TRUE, raised |-> "none", strategy |-> tagged,
                   local_embedding_layers |-> tagged.local_configs]

InitPlan ==
  /\ embeddings \in TableLists
  /\ world_size \in 1..MaxWorld
  /\ strategy \in StrategyNames
  /\ column_slice_threshold \in Thresholds
  /\ input_table_map \in InputTableMaps(Len(embeddings))
  /\ entry \in {"DistEmbeddingStrategy", "DistributedEmbedding"}
  /\ objs = List([w \in 1..world_size |-> no_layer])
  /\ ret = None
  /\ NoCalls

\* Worker r runs DistEmbeddingStrategy(embeddings, world_size, r, strategy, ...).
ConstructStrategy(r) ==
  /\ entry = "DistEmbeddingStrategy"
  /\ ~objs[r + 1].built
  /\ LET st == DistEmbeddingStrategy(embeddings, world_size, r, strategy,
                                     input_table_map, column_slice_threshold)
     IN objs' = [objs EXCEPT ![r + 1] =
                   [built |-> TRUE, raised |-> st.raised, strategy |-> st,
                    local_embedding_layers |-> <<>>]]
  /\ UNCHANGED <<inputVars, ret, callVars>>

\* Worker r runs DistributedEmbedding(embeddings, strategy, ...).
ConstructLayer(r) ==
  /\ entry = "DistributedEmbedding"
  /\ ~objs[r + 1].built
  /\ objs' = [objs EXCEPT ![r + 1] =
                DistributedEmbedding(embeddings, world_size, r, strategy,
                                     input_table_map, column_slice_threshold)]
  /\ UNCHANGED <<inputVars, ret, callVars>>

NextPlan ==
  \/ \E r \in Ranks : ConstructStrategy(r)
  \/ \E r \in Ranks : ConstructLayer(r)

Spec == InitPlan /\ [][NextPlan]_vars

(***************************************************************************)
(* The memory_optimized assignment on its own: every worker builds a       *)
(* DistributedEmbedding with strategy "memory_optimized", over longer and  *)
(* wider table lists.                                                      *)
(***************************************************************************)
TableConfigsOpt == {Config(i, o) : i \in 1..MaxInputDim, o \in 1..MaxOutputDimOpt}

InitOptimized ==
  /\ embeddings \in UNION {[1..n -> TableConfigsOpt] : n \in 1..MaxTablesOpt}
  /\ world_size \in 2..MaxWorld
  /\ strategy = "memory_optimized"
  /\ column_slice_threshold \in {None} \cup {Some(n) : n \in 0..MaxThresholdOpt}
  /\ input_table_map = None
  /\ entry = "DistributedEmbedding"
  /\ objs = List([w \in 1..world_size |-> no_layer])
  /\ ret = None
  /\ NoCalls

NextOptimized == \E r \in Ranks : ConstructLayer(r)

\* Plans over tables some of which hold no element (input_dim or output_dim
\* 0) and several of which have the same size, with fewer, as many and more
\* tables than workers.
TableConfigsOwn == {Config(i, o) : i \in 0..MaxInputDimOwn, o \in 0..MaxOutputDimOwn}

InitOwn ==
  /\ embeddings \in UNION {[1..n -> TableConfigsOwn] : n \in 1..MaxTablesOwn}
  /\ world_size \in 1..MaxWorld
  /\ strategy \in Supported
  /\ column_slice_threshold \in {None, Some(1)}
  /\ input_table_map = None
  /\ entry \in {"DistEmbeddingStrategy", "DistributedEmbedding"}
  /\ objs = List([w \in 1..world_size |-> no_layer])
  /\ ret = None
  /\ NoCalls

SpecOwn == InitOwn /\ [][NextPlan]_vars

SpecOptimized == InitOptimized /\ [][NextOptimized]_vars

(***************************************************************************)
(* The column slicer on its own: one config, a threshold and a world size  *)
(* are drawn, and maybe_slice_table_column is called on them.              *)
(***************************************************************************)
InitSlice ==
  /\ embeddings \in {<<Config(i, o)>> : i \in 1..MaxSliceInputDim, o \in 1..MaxSliceOutputDim}
  /\ world_size \in 1..MaxSliceWorld
  /\ strategy = "basic"
  /\ column_slice_threshold \in {None} \cup {Some(n) : n \in 0..MaxSliceThreshold}
  /\ input_table_map = None
  /\ entry = "DistEmbeddingStrategy"
  /\ objs = <<>>
  /\ ret = None
  /\ NoCalls

CallMaybeSlice ==
  /\ ret = None
  /\ ret' = Some(maybe_slice_table_column(embeddings[1], column_slice_threshold, world_size))
  /\ UNCHANGED <<inputVars, objs, callVars>>

NextSlice == CallMaybeSlice

SpecSlice == InitSlice /\ [][NextSlice]_vars

(***************************************************************************)
(* Loading and reading weights: every worker holds a built layer, calls    *)
(* set_weights(weights) and then get_weights(all_ranks).                   *)
(***************************************************************************)
\* a full table whose entries name their table, row and column
TableWeight(t, config) ==
  List([i \in 1..config.input_dim |->
     List([j \in 1..config.output_dim |-> 100 * (t - 1) + 10 * (i - 1) + (j - 1)])])

GlobalWeights(configs) == List([t \in 1..Len(configs) |-> TableWeight(t, configs[t])])

\* the variables of a built layer before any weights are set
InitialVariables(layer) ==
  List([i \in 1..Len(layer.local_embedding_layers) |->
     List([row \in 1..layer.local_embedding_layers[i].input_dim |->
        List([col \in 1..layer.local_embedding_layers[i].output_dim |-> 0])])])

\* all workers have constructed and built their layer
BuiltLayers ==
  /\ entry = "DistributedEmbedding"
  /\ strategy \in Supported
  /\ Len(embeddings) >= world_size
  /\ objs = List([w \in 1..world_size |->
               DistributedEmbedding(embeddings, world_size, w - 1, strategy,
                                    input_table_map, column_slice_threshold)])
  /\ variables = List([w \in 1..world_size |-> InitialVariables(objs[w])])

InitWeights ==
  /\ embeddings \in TableLists
  /\ world_size \in 1..MaxWorld
  /\ strategy \in Supported
  /\ column_slice_threshold \in Thresholds
  /\ input_table_map = None
  /\ BuiltLayers
  /\ weights = GlobalWeights(embeddings)
  /\ use_lock = FALSE
  /\ all_ranks \in BOOLEAN
  /\ pc = List([w \in 1..world_size |-> "built"])
  /\ comm = <<List([w \in 1..world_size |-> None]), List([w \in 1..world_size |-> <<>>])>>
  /\ issued = List([w \in 1..world_size |-> 0])
  /\ ret = List([w \in 1..world_size |-> None])
  /\ inputs = <<>> /\ sources = <<>> /\ gradients = <<>>

weightConst == <<inputVars, objs, weights, use_lock, all_ranks, inputs, sources, gradients>>

\* set_weights(weights) on rank r, use_lock=False
SetWeights(r) ==
  /\ pc[r + 1] = "built"
  /\ ~use_lock
  /\ LET res == set_weights(variables[r + 1], objs[r + 1].strategy.table_ids_list,
                            world_size, r, weights, chunk_default)
     IN /\ variables' = [variables EXCEPT ![r + 1] = res.weights]
        /\ pc' = [pc EXCEPT ![r + 1] = IF res.raised = "none" THEN "loaded" ELSE res.raised]
  /\ UNCHANGED <<weightConst, comm, issued, ret>>

\* get_weights on one worker: return [w.numpy() for w in local_weights]
GetWeightsSingle(r) ==
  /\ pc[r + 1] = "loaded"
  /\ world_size = 1
  /\ ret' = [ret EXCEPT ![r + 1] = Some(variables[r + 1])]
  /\ pc' = [pc EXCEPT ![r + 1] = "done"]
  /\ UNCHANGED <<weightConst, comm, issued, variables>>

\* lines 426-441: rank r works out its chunks and hands chunk_sizes to
\* hvd.allgather; comm[1] holds what the ranks handed to that allgather
GetWeightsGather(r) ==
  /\ pc[r + 1] = "loaded"
  /\ world_size > 1
  /\ comm' = [comm EXCEPT ![1][r + 1] =
                Some(local_chunks(variables[r + 1],
                                  objs[r + 1].strategy.local_configs_list,
                                  world_size).chunk_sizes)]
  /\ pc' = [pc EXCEPT ![r + 1] = "sizes_wait"]
  /\ UNCHANGED <<weightConst, issued, variables, ret>>

\* hvd.allgather(chunk_sizes) returns: every rank has handed in its sizes
GetWeightsSizesReturn(r) ==
  /\ pc[r + 1] = "sizes_wait"
  /\ \A q \in Ranks : comm[1][q + 1] # None
  /\ pc' = [pc EXCEPT ![r + 1] = "gather"]
  /\ UNCHANGED <<weightConst, comm, issued, variables, ret>>

\* line 446: rank r hands its next chunk to hvd.allgather; comm[2] holds,
\* per rank, the chunks handed in so far
GetWeightsGatherChunk(r) ==
  /\ pc[r + 1] = "gather"
  /\ Len(comm[2][r + 1]) < Len(comm[1][r + 1][1])
  /\ comm' = [comm EXCEPT ![2][r + 1] =
                Append(@, local_chunks(variables[r + 1],
                                       objs[r + 1].strategy.local_configs_list,
                                       world_size).local_weights[Len(@) + 1])]
  /\ pc' = [pc EXCEPT ![r + 1] = "chunk_wait"]
  /\ UNCHANGED <<weightConst, issued, variables, ret>>

\* hvd.allgather(w) returns: every rank has handed in that chunk
GetWeightsChunkReturn(r) ==
  /\ pc[r + 1] = "chunk_wait"
  /\ \A q \in Ranks : Len(comm[2][q + 1]) >= Len(comm[2][r + 1])
  /\ pc' = [pc EXCEPT ![r + 1] = "gather"]
  /\ UNCHANGED <<weightConst, comm, issued, variables, ret>>

\* lines 447-485: the loop over the chunks is over; the gathered chunks are
\* split, reshaped and put in global table order
GetWeightsReturn(r) ==
  /\ pc[r + 1] = "gather"
  /\ Len(comm[2][r + 1]) = Len(comm[1][r + 1][1])
  /\ ret' = [ret EXCEPT ![r + 1] =
               Some(gathered_weights(List([q \in 1..world_size |->
                                        [chunk_sizes |-> comm[1][q][1],
                                         local_weights |-> comm[2][q]]]),
                                     objs[r + 1].strategy.table_ids_list,
                                     objs[r + 1].strategy.local_configs_list,
                                     world_size, r, all_ranks))]
  /\ pc' = [pc EXCEPT ![r + 1] = "done"]
  /\ UNCHANGED <<weightConst, comm, issued, variables>>

NextWeights ==
  \E r \in Ranks :
    \/ SetWeights(r)
    \/ GetWeightsSingle(r)
    \/ GetWeightsGather(r)
    \/ GetWeightsSizesReturn(r)
    \/ GetWeightsGatherChunk(r)
    \/ GetWeightsChunkReturn(r)
    \/ GetWeightsReturn(r)

SpecWeights == InitWeights /\ [][NextWeights]_vars

(***************************************************************************)
(* get_weights at the scale of its chunking threshold.  A tensor is stood  *)
(* for by its number of elements: every worker holds a built layer with    *)
(* tables of up to chunking_threshold rows and calls get_weights.          *)
(***************************************************************************)
\* rows of a one-column table
ChunkRows == {1, 1000000000, 1500000001, chunking_threshold}

InitChunks ==
  /\ world_size \in 2..MaxChunkWorld
  /\ embeddings \in [1..world_size -> {Config(n, 1) : n \in ChunkRows}]
  /\ strategy \in Supported
  /\ column_slice_threshold = None
  /\ input_table_map = None
  /\ entry = "DistributedEmbedding"
  /\ objs = List([w \in 1..world_size |->
               DistributedEmbedding(embeddings, world_size, w - 1, strategy,
                                    input_table_map, column_slice_threshold)])
  /\ variables = <<>>
  /\ weights = <<>>
  /\ use_lock = FALSE
  /\ all_ranks \in BOOLEAN
  /\ pc = List([w \in 1..world_size |-> "loaded"])
  /\ comm = <<List([w \in 1..world_size |-> None])>>
  /\ issued = List([w \in 1..world_size |-> 0])
  /\ ret = List([w \in 1..world_size |-> None])
  /\ inputs = <<>> /\ sources = <<>> /\ gradients = <<>>

chunkConst == <<inputVars, objs, weights, use_lock, all_ranks, inputs, sources, gradients,
                variables, ret>>

\* lines 426-441: rank r works out num_chunks and its chunk_sizes, splits
\* its flattened weights and hands chunk_sizes to hvd.allgather
GatherChunkSizes(r) ==
  /\ pc[r + 1] = "loaded"
  /\ LET local_configs_list == objs[r + 1].strategy.local_configs_list
         num_chunks == num_chunks_loop(local_configs_list, world_size, 1, 1)
         \* local_weights.shape[0] after the concat of line 435
         num_elements == config_elements(objs[r + 1].local_embedding_layers)
     IN comm' = [comm EXCEPT ![1][r + 1] = Some(chunk_sizes_of(num_elements, num_chunks))]
  /\ pc' = [pc EXCEPT ![r + 1] = "sizes_wait"]
  /\ UNCHANGED <<chunkConst, issued>>

\* line 441 returns: every rank has handed in its chunk_sizes
ChunkSizesReturn(r) ==
  /\ pc[r + 1] = "sizes_wait"
  /\ \A q \in Ranks : comm[1][q + 1] # None
  /\ pc' = [pc EXCEPT ![r + 1] = "gather"]
  /\ UNCHANGED <<chunkConst, comm, issued>>

\* line 446: rank r hands its next chunk to hvd.allgather
GatherChunk(r) ==
  /\ pc[r + 1] = "gather"
  /\ issued[r + 1] < Len(comm[1][r + 1][1])
  /\ issued' = [issued EXCEPT ![r + 1] = @ + 1]
  /\ pc' = [pc EXCEPT ![r + 1] = "chunk_wait"]
  /\ UNCHANGED <<chunkConst, comm>>

\* the allgather rank r is blocked in returns: every rank has issued it
GatherChunkReturn(r) ==
  /\ pc[r + 1] = "chunk_wait"
  /\ \A q \in Ranks : issued[q + 1] >= issued[r + 1]
  /\ pc' = [pc EXCEPT ![r + 1] = "gather"]
  /\ UNCHANGED <<chunkConst, comm, issued>>

\* the loop of lines 445-448 is over
GatherChunksDone(r) ==
  /\ pc[r + 1] = "gather"
  /\ issued[r + 1] = Len(comm[1][r + 1][1])
  /\ pc' = [pc EXCEPT ![r + 1] = "gathered"]
  /\ UNCHANGED <<chunkConst, comm, issued>>

NextChunks ==
  \E r \in Ranks :
    \/ GatherChunkSizes(r)
    \/ ChunkSizesReturn(r)
    \/ GatherChunk(r)
    \/ GatherChunkReturn(r)
    \/ GatherChunksDone(r)

SpecChunks == InitChunks /\ [][NextChunks]_vars

(***************************************************************************)
(* The forward pass: every worker holds a built layer loaded with the same *)
(* full tables and calls it on its own batch.                              *)
(***************************************************************************)
\* None, a map that reverses and may leave tables without input, and a map
\* that uses every table and table 0 twice
CallInputMaps(n) ==
  {None, Some(<<n - 1, 0>>), Some(Reverse(Range(n)) \o <<0>>)}

\* input_table_map with its default filled in
MapOf(itm, n) == IF itm = None THEN Range(n) ELSE itm[1]

\* the batch of worker w (1-based): LocalBatch row indices per input
BatchOf(w) ==
  LET itm == MapOf(input_table_map, Len(embeddings))
  IN List([k \in 1..Len(itm) |->
        List([j \in 1..LocalBatch |->
           ((w - 1) + (k - 1) + (j - 1)) % embeddings[itm[k] + 1].input_dim])])

InitCall ==
  /\ embeddings \in TableLists
  /\ world_size \in 1..MaxWorld
  /\ strategy \in Supported
  /\ column_slice_threshold \in {None, Some(1), Some(MaxThreshold)}
  /\ input_table_map \in CallInputMaps(Len(embeddings))
  /\ BuiltLayers
  /\ weights = GlobalWeights(embeddings)
  /\ use_lock = FALSE
  /\ all_ranks = FALSE
  /\ pc = List([w \in 1..world_size |-> "built"])
  /\ comm = <<List([w \in 1..world_size |-> None]), List([w \in 1..world_size |-> None])>>
  /\ issued = List([w \in 1..world_size |-> 0])
  /\ ret = List([w \in 1..world_size |-> None])
  /\ inputs = List([w \in 1..world_size |-> BatchOf(w)])
  /\ sources = <<>> /\ gradients = <<>>

callConst == <<inputVars, objs, weights, use_lock, all_ranks, inputs, sources, gradients,
               issued>>

\* set_weights(weights) on rank r before any call
LoadWeights(r) ==
  /\ pc[r + 1] = "built"
  /\ LET res == set_weights(variables[r + 1], objs[r + 1].strategy.table_ids_list,
                            world_size, r, weights, chunk_default)
     IN /\ res.raised = "none"
        /\ variables' = [variables EXCEPT ![r + 1] = res.weights]
  /\ pc' = [pc EXCEPT ![r + 1] = "ready"]
  /\ UNCHANGED <<callConst, comm, ret>>

\* call on a single worker
CallSingle(r) ==
  /\ pc[r + 1] = "ready"
  /\ world_size = 1
  /\ ret' = [ret EXCEPT ![r + 1] =
               Some(call_single(variables[r + 1],
                                objs[r + 1].strategy.local_input_table_map, inputs[r + 1]))]
  /\ pc' = [pc EXCEPT ![r + 1] = "done"]
  /\ UNCHANGED <<callConst, comm, variables>>

\* _call_base up to the input all-to-all: rank r hands in its inputs
CallSend(r) ==
  /\ pc[r + 1] = "ready"
  /\ world_size > 1
  /\ comm' = [comm EXCEPT ![1][r + 1] =
                Some(dp_to_mp_parts(inputs[r + 1], objs[r + 1].strategy.input_ids_list))]
  /\ pc' = [pc EXCEPT ![r + 1] = "inp_dp_to_mp"]
  /\ UNCHANGED <<callConst, variables, ret>>

\* what rank r receives from the input all-to-all, as its local inputs
ReceivedInputs(r) ==
  mp_inputs(Flatten(List([q \in 1..world_size |-> comm[1][q][1][r + 1]])), world_size,
            local_splits_of(inputs[r + 1], objs[r + 1].strategy.input_ids_list[r + 1]))

\* the input all-to-all returns; lookups; the outputs go to the output
\* all-to-all.  On a rank that serves no input the list of lookups is empty
\* and tf.concat cannot concatenate it: the call raises before the output
\* all-to-all is reached.
CallLookup(r) ==
  /\ pc[r + 1] = "inp_dp_to_mp"
  /\ \A q \in Ranks : comm[1][q + 1] # None
  /\ IF objs[r + 1].strategy.input_ids_list[r + 1] = <<>>
     THEN /\ pc' = [pc EXCEPT ![r + 1] = "raised"]
          /\ UNCHANGED comm
     ELSE /\ comm' = [comm EXCEPT ![2][r + 1] =
                        Some(mp_outputs(variables[r + 1],
                                        objs[r + 1].strategy.local_input_table_map,
                                        ReceivedInputs(r), world_size))]
          /\ pc' = [pc EXCEPT ![r + 1] = "out_mp_to_dp"]
  /\ UNCHANGED <<callConst, variables, ret>>

\* the output all-to-all returns; reorder; concatenate the column slices
CallReturn(r) ==
  /\ pc[r + 1] = "out_mp_to_dp"
  /\ \A q \in Ranks : comm[2][q + 1] # None
  /\ ret' = [ret EXCEPT ![r + 1] =
       Some(concat_column_slice_outputs(
              dp_outputs(Flatten(List([q \in 1..world_size |-> comm[2][q][1][r + 1]])),
                         Len(ReceivedInputs(r)[1]), world_size,
                         objs[r + 1].strategy.widths_list_flat,
                         objs[r + 1].strategy.rev_global_input_ids),
              objs[r + 1].strategy.sliced_out_ranges))]
  /\ pc' = [pc EXCEPT ![r + 1] = "done"]
  /\ UNCHANGED <<callConst, comm, variables>>

NextCall ==
  \E r \in Ranks :
    \/ LoadWeights(r)
    \/ CallSingle(r)
    \/ CallSend(r)
    \/ CallLookup(r)
    \/ CallReturn(r)

SpecCall == InitCall /\ [][NextCall]_vars

(***************************************************************************)
(* Lock-step loading: every worker calls set_weights(weights, use_lock).   *)
(* broadcast_object is a blocking collective: the k-th call of a worker    *)
(* returns once every worker has issued its k-th call.                     *)
(***************************************************************************)
\* the names of the exceptions the assignment section can raise
Raises == {"IndexError", "ValueError", "InvalidArgumentError", "ZeroDivisionError"}

\* the global weights with one row too many in the array of table t
WeightsWithExtraRow(configs, t) ==
  List([u \in 1..Len(configs) |->
     IF u = t THEN Append(TableWeight(u, configs[u]), TableWeight(u, configs[u])[1])
     ELSE TableWeight(u, configs[u])])

\* the weights argument of set_weights: the arrays of the tables' shapes, or
\* a list in which one array has another shape than its table
WeightsArguments(configs) ==
  {GlobalWeights(configs)} \cup {WeightsWithExtraRow(configs, t) : t \in 1..Len(configs)}

InitLock ==
  /\ world_size \in 1..MaxWorld
  /\ embeddings \in {List([t \in 1..world_size |-> c]) : c \in TableConfigs}
  /\ strategy \in Supported
  /\ column_slice_threshold \in {None, Some(1)}
  /\ input_table_map = None
  /\ BuiltLayers
  /\ weights \in WeightsArguments(embeddings)
  /\ use_lock \in BOOLEAN
  /\ all_ranks = FALSE
  /\ pc = List([w \in 1..world_size |-> "pre"])
  /\ comm = <<>>
  /\ issued = List([w \in 1..world_size |-> 0])
  /\ ret = List([w \in 1..world_size |-> None])
  /\ inputs = <<>> /\ sources = <<>> /\ gradients = <<>>

lockConst == <<inputVars, objs, weights, use_lock, all_ranks, inputs, sources, gradients,
               comm>>

\* lines 329-331: rank r issues its next broadcast before loading
PreBroadcast(r) ==
  /\ pc[r + 1] = "pre"
  /\ use_lock
  /\ issued[r + 1] < pre_broadcasts(r)
  /\ issued' = [issued EXCEPT ![r + 1] = @ + 1]
  /\ pc' = [pc EXCEPT ![r + 1] = "pre_wait"]
  /\ UNCHANGED <<lockConst, variables, ret>>

\* the broadcast rank r is blocked in returns: every rank has issued it
BroadcastReturn(r) ==
  /\ pc[r + 1] \in {"pre_wait", "post_wait"}
  /\ \A q \in Ranks : issued[q + 1] >= issued[r + 1]
  /\ pc' = [pc EXCEPT ![r + 1] = IF @ = "pre_wait" THEN "pre" ELSE "post"]
  /\ UNCHANGED <<lockConst, issued, variables, ret>>

\* rank r is through its pre-load broadcasts and starts on lines 333-381
EnterAssign(r) ==
  /\ pc[r + 1] = "pre"
  /\ use_lock => issued[r + 1] = pre_broadcasts(r)
  /\ pc' = [pc EXCEPT ![r + 1] = "assign"]
  /\ UNCHANGED <<lockConst, issued, variables, ret>>

\* lines 333-381: the slices are cut and assigned; del weights. An
\* exception raised in there leaves set_weights: the variables keep what was
\* assigned before it, and rank r never issues the broadcasts of lines 383-385
Assign(r) ==
  /\ pc[r + 1] = "assign"
  /\ \E res \in {set_weights(variables[r + 1], objs[r + 1].strategy.table_ids_list,
                              world_size, r, weights, chunk_default)} :
       /\ variables' = [variables EXCEPT ![r + 1] = res.weights]
       /\ pc' = [pc EXCEPT ![r + 1] = IF res.raised = "none" THEN "post" ELSE res.raised]
  /\ UNCHANGED <<lockConst, issued, ret>>

\* lines 383-385: rank r issues its next broadcast after loading
PostBroadcast(r) ==
  /\ pc[r + 1] = "post"
  /\ use_lock
  /\ issued[r + 1] < pre_broadcasts(r) + post_broadcasts(world_size, r)
  /\ issued' = [issued EXCEPT ![r + 1] = @ + 1]
  /\ pc' = [pc EXCEPT ![r + 1] = "post_wait"]
  /\ UNCHANGED <<lockConst, variables, ret>>

\* set_weights returns
SetWeightsReturn(r) ==
  /\ pc[r + 1] = "post"
  /\ use_lock => issued[r + 1] = pre_broadcasts(r) + post_broadcasts(world_size, r)
  /\ pc' = [pc EXCEPT ![r + 1] = "done"]
  /\ ret' = [ret EXCEPT ![r + 1] = Some(None)]
  /\ UNCHANGED <<lockConst, issued, variables>>

NextLock ==
  \E r \in Ranks :
    \/ PreBroadcast(r)
    \/ BroadcastReturn(r)
    \/ EnterAssign(r)
    \/ Assign(r)
    \/ PostBroadcast(r)
    \/ SetWeightsReturn(r)

SpecLock == InitLock /\ [][NextLock]_vars

\* the workers' starts for the termination of the lock-step load, every
\* worker calling set_weights(weights, use_lock=True): the
\* broadcasts depend on world_size, rank and use_lock only, so the tables
\* are all of the narrowest or all of the widest config
InitLockFair ==
  /\ world_size \in 1..MaxWorld
  /\ embeddings \in {List([t \in 1..world_size |-> c]) :
                       c \in {Config(1, 1), Config(1, 2)}}
  /\ strategy \in Supported
  /\ column_slice_threshold = None
  /\ input_table_map = None
  /\ BuiltLayers
  /\ weights \in WeightsArguments(embeddings)
  /\ use_lock = TRUE
  /\ all_ranks = FALSE
  /\ pc = List([w \in 1..world_size |-> "pre"])
  /\ comm = <<>>
  /\ issued = List([w \in 1..world_size |-> 0])
  /\ ret = List([w \in 1..world_size |-> None])
  /\ inputs = <<>> /\ sources = <<>> /\ gradients = <<>>

\* the steps of worker r inside set_weights
LockStepOf(r) ==
  /\ r \in Ranks
  /\ \/ PreBroadcast(r)
     \/ BroadcastReturn(r)
     \/ EnterAssign(r)
     \/ Assign(r)
     \/ PostBroadcast(r)
     \/ SetWeightsReturn(r)

\* every worker is a process of its own that keeps running: a step of
\* set_weights that stays possible is eventually taken
SpecLockFair ==
  /\ InitLockFair
  /\ [][NextLock]_vars
  /\ \A r \in 0..(MaxWorld - 1) : WF_vars(LockStepOf(r))

(***************************************************************************)
(* The patched gradient(): every worker differentiates the same sources;   *)
(* the wrapped tape gives each its local gradients.                        *)
(***************************************************************************)
SourceKinds == {"dp", "mp", "mp_sparse"}

InitGrad ==
  /\ world_size \in 1..MaxWorld
  /\ \E n \in 0..MaxSources :
       \E kinds \in [1..n -> SourceKinds], seed \in [1..n -> 1..MaxGrad] :
         /\ sources = List([i \in 1..n |->
                         [synchronization |-> IF kinds[i] = "dp" THEN "AUTO" ELSE "NONE"]])
         /\ gradients = List([w \in 1..world_size |->
                           List([i \in 1..n |->
                              IF kinds[i] = "mp_sparse"
                              THEN IndexedSlices(seed[i] + 10 * (w - 1), <<i - 1>>, <<n, 1>>)
                              ELSE Tensor(seed[i] + 10 * (w - 1))])])
  /\ embeddings = <<>> /\ strategy = "basic" /\ column_slice_threshold = None
  /\ input_table_map = None /\ entry = "DistributedGradientTape" /\ objs = <<>>
  /\ weights = <<>> /\ use_lock = FALSE /\ all_ranks = FALSE /\ variables = <<>>
  /\ inputs = <<>>
  /\ pc = List([w \in 1..world_size |-> "tape"])
  /\ comm = <<List([w \in 1..world_size |-> None])>>
  /\ issued = List([w \in 1..world_size |-> 0])
  /\ ret = List([w \in 1..world_size |-> None])

gradConst == <<inputVars, objs, weights, use_lock, all_ranks, variables, inputs, sources,
               gradients, issued>>

\* lines 535-551: rank r splits its gradients; comm[1] holds, per rank, the
\* dp gradients it has handed to an allreduce so far
GradientSplit(r) ==
  /\ pc[r + 1] = "tape"
  /\ comm' = [comm EXCEPT ![1][r + 1] = Some(<<>>)]
  /\ pc' = [pc EXCEPT ![r + 1] = "allreduce"]
  /\ UNCHANGED <<gradConst, ret>>

\* lines 553-555: rank r hands its next dp gradient to
\* hvd.allreduce(g, name='dp_gradient_i')
AllreduceIssue(r) ==
  /\ pc[r + 1] = "allreduce"
  /\ LET dp_grads == gradient_split(gradients[r + 1], sources, world_size).dp_grads
     IN /\ Len(comm[1][r + 1][1]) < Len(dp_grads)
        /\ comm' = [comm EXCEPT ![1][r + 1] =
                      Some(Append(@[1], dp_grads[Len(@[1]) + 1]))]
  /\ pc' = [pc EXCEPT ![r + 1] = "allreduce_wait"]
  /\ UNCHANGED <<gradConst, ret>>

\* the allreduce rank r is blocked in returns: every rank has handed in its
\* gradient of that name
AllreduceReturn(r) ==
  /\ pc[r + 1] = "allreduce_wait"
  /\ \A q \in Ranks :
       /\ comm[1][q + 1] # None
       /\ Len(comm[1][q + 1][1]) >= Len(comm[1][r + 1][1])
  /\ pc' = [pc EXCEPT ![r + 1] = "allreduce"]
  /\ UNCHANGED <<gradConst, comm, ret>>

\* lines 556-563: all allreduces have returned; the gradients are put back in
\* source order
GradientReturn(r) ==
  /\ pc[r + 1] = "allreduce"
  /\ LET split == gradient_split(gradients[r + 1], sources, world_size)
     IN /\ Len(comm[1][r + 1][1]) = Len(split.dp_grads)
        /\ ret' = [ret EXCEPT ![r + 1] =
             Some(put_back(split.split_infos, split.mp_grads,
                    List([i \in 1..Len(split.dp_grads) |->
                       allreduce_average(List([q \in 1..world_size |-> comm[1][q][1][i]]),
                                         world_size)])))]
  /\ pc' = [pc EXCEPT ![r + 1] = "done"]
  /\ UNCHANGED <<gradConst, comm>>

NextGrad ==
  \E r \in Ranks :
    \/ GradientSplit(r)
    \/ AllreduceIssue(r)
    \/ AllreduceReturn(r)
    \/ GradientReturn(r)

SpecGrad == InitGrad /\ [][NextGrad]_vars

(***************************************************************************)
(* Claims about the planner.                                               *)
(***************************************************************************)
\* the strategy objects that exist: rank r has built one and nothing was raised
Planned(r) == objs[r + 1].built /\ objs[r + 1].raised = "none"
PlanOf(r) == objs[r + 1].strategy

(* C1: for world_size > 1 and each of the three strategies, the per-worker  *)
(* lists of table ids partition the flat slice list: there is one list per  *)
(* worker, their lengths sum to the number of slices, and every table id    *)
(* occurs, over all workers, once per slice its table was cut into.         *)
C1_Partition ==
  \A r \in Ranks :
    (Planned(r) /\ world_size > 1) =>
      LET flat == Flatten(PlanOf(r).table_ids_list)
          sc == sliced_configs_of(embeddings, world_size, column_slice_threshold)
      IN /\ Len(PlanOf(r).table_ids_list) = world_size
         /\ Len(flat) = SumSeq(List([t \in 1..Len(sc) |-> Len(sc[t])]))
         /\ \A t \in 1..Len(embeddings) : Count(flat, t - 1) = Len(sc[t])

\* a plan of a sliced table list under each strategy that reorders slices
C1_Witness ==
  \E r \in Ranks :
    /\ Planned(r) /\ world_size > 1
    /\ strategy = "memory_balanced"
    /\ Len(Flatten(PlanOf(r).table_ids_list)) > Len(embeddings)
    /\ \E w \in 1..world_size : Len(PlanOf(r).table_ids_list[w]) >= 2

(* C7 as stated: under memory_balanced every worker receives the same       *)
(* number of slices.                                                        *)
C7_EqualCounts ==
  \A r \in Ranks :
    (Planned(r) /\ world_size > 1 /\ strategy = "memory_balanced") =>
      \A v, w \in 1..world_size :
        Len(PlanOf(r).table_ids_list[v]) = Len(PlanOf(r).table_ids_list[w])

(* C7 amended: under memory_balanced the slice counts of any two workers    *)
(* differ by at most one, and they are all equal whenever the number of     *)
(* slices is a multiple of world_size.                                      *)
C7_CountsWithinOne ==
  \A r \in Ranks :
    (Planned(r) /\ world_size > 1 /\ strategy = "memory_balanced") =>
      LET ids == PlanOf(r).table_ids_list
      IN /\ \A v, w \in 1..world_size : Len(ids[v]) - Len(ids[w]) <= 1
         /\ (Len(Flatten(ids)) % world_size = 0
               => \A v, w \in 1..world_size : Len(ids[v]) = Len(ids[w]))

\* both cases happen: an uneven plan, and an even one with two slices each
C7_Witness ==
  \E r \in Ranks :
    /\ Planned(r) /\ world_size > 1 /\ strategy = "memory_balanced"
    /\ Len(Flatten(PlanOf(r).table_ids_list)) = 2 * world_size
    /\ \A w \in 1..world_size : Len(PlanOf(r).table_ids_list[w]) = 2

(* C5: two workers of different rank that run DistEmbeddingStrategy on the  *)
(* same arguments end with identical table_ids_list, local_configs_list,    *)
(* input_ids_list, local_map_list, widths_list_flat, rev_global_input_ids   *)
(* and sliced_out_ranges; local_configs and local_input_table_map are the   *)
(* rank-th entries of local_configs_list and local_map_list.                *)
C5_SamePlan ==
  \A r1, r2 \in Ranks :
    (entry = "DistEmbeddingStrategy" /\ world_size > 1 /\ Planned(r1) /\ Planned(r2)) =>
      /\ PlanOf(r1).table_ids_list = PlanOf(r2).table_ids_list
      /\ PlanOf(r1).local_configs_list = PlanOf(r2).local_configs_list
      /\ PlanOf(r1).input_ids_list = PlanOf(r2).input_ids_list
      /\ PlanOf(r1).local_map_list = PlanOf(r2).local_map_list
      /\ PlanOf(r1).widths_list_flat = PlanOf(r2).widths_list_flat
      /\ PlanOf(r1).rev_global_input_ids = PlanOf(r2).rev_global_input_ids
      /\ PlanOf(r1).sliced_out_ranges = PlanOf(r2).sliced_out_ranges
      /\ PlanOf(r1).local_configs = PlanOf(r1).local_configs_list[r1 + 1]
      /\ PlanOf(r1).local_input_table_map = PlanOf(r1).local_map_list[r1 + 1]

\* two ranks hold plans whose own parts differ
C5_Witness ==
  \E r1, r2 \in Ranks :
    /\ entry = "DistEmbeddingStrategy" /\ world_size > 1 /\ Planned(r1) /\ Planned(r2)
    /\ r1 # r2
    /\ PlanOf(r1).local_configs # PlanOf(r2).local_configs
    /\ PlanOf(r1).local_input_table_map # PlanOf(r2).local_input_table_map
    /\ PlanOf(r1).sliced_out_ranges # <<>>

(* C10: an unsupported strategy name always ends in ValueError and yields   *)
(* no table assignment, through DistributedEmbedding and through            *)
(* DistEmbeddingStrategy, for every world_size including 1.                 *)
C10_UnsupportedRejected ==
  \A r \in Ranks :
    (objs[r + 1].built /\ strategy \notin Supported) =>
      /\ objs[r + 1].raised = "ValueError"
      /\ "table_ids_list" \notin PlanOf(r).attrs

(* C14: whenever the number of global tables is at least world_size, every  *)
(* worker's entry of table_ids_list is non-empty under each of the three    *)
(* strategies, including when several slices have equal or zero element     *)
(* counts; with fewer tables than workers construction of                   *)
(* DistributedEmbedding fails with NotImplementedError instead.             *)
C14_EveryWorkerOwns ==
  \A r \in Ranks :
    (objs[r + 1].built /\ strategy \in Supported) =>
      IF Len(embeddings) >= world_size
      THEN /\ Planned(r)
           /\ Len(PlanOf(r).table_ids_list) = world_size
           /\ \A w \in 1..world_size : PlanOf(r).table_ids_list[w] # <<>>
      ELSE entry = "DistributedEmbedding" =>
             /\ objs[r + 1].raised = "NotImplementedError"
             /\ objs[r + 1].local_embedding_layers = <<>>

\* a layer built under memory_optimized over tables of which two hold no
\* element and two have the same size, a worker owning two slices
C14_Witness ==
  \E r \in Ranks :
    /\ entry = "DistributedEmbedding" /\ Planned(r)
    /\ strategy = "memory_optimized" /\ world_size = MaxWorld
    /\ Len(embeddings) > world_size
    /\ \E t, u \in 1..Len(embeddings) :
         /\ t # u
         /\ embeddings[t].input_dim * embeddings[t].output_dim = 0
         /\ embeddings[u].input_dim * embeddings[u].output_dim = 0
    /\ \E t, u \in 1..Len(embeddings) :
         /\ t # u
         /\ embeddings[t].input_dim * embeddings[t].output_dim > 0
         /\ embeddings[t] = embeddings[u]
    /\ \E w \in 1..world_size : Len(PlanOf(r).table_ids_list[w]) >= 2
    /\ \A w \in 1..world_size : PlanOf(r).table_ids_list[w] # <<>>

\* the element counts of the slice configs worker w (1-based) receives
received_elements(plan, w) ==
  SumSeq(List([i \in 1..Len(plan.local_configs_list[w]) |->
                 plan.local_configs_list[w][i].input_dim
                 * plan.local_configs_list[w][i].output_dim]))

(* C6: under memory_optimized the largest total element count of the slice *)
(* configs a worker receives in local_configs_list is at most (sum of all  *)
(* slices' element counts) / world_size + (largest slice's element count). *)
C6_GreedyBound ==
  \A r \in Ranks :
    (Planned(r) /\ world_size > 1 /\ strategy = "memory_optimized") =>
      LET sizes == table_sizes_of(sliced_configs_of(embeddings, world_size,
                                                    column_slice_threshold))
          largest == CHOOSE x \in {sizes[i] : i \in 1..Len(sizes)} :
                       \A i \in 1..Len(sizes) : sizes[i] <= x
      IN \A w \in 1..world_size :
           \* total <= sum / world_size + largest, without rounding
           received_elements(PlanOf(r), w) * world_size
             <= SumSeq(sizes) + largest * world_size

(* C2: for output_dim >= 1 the slices' widths sum to output_dim, none is   *)
(* zero, their count is at most min(world_size, output_dim), and with N    *)
(* slices the widths are output_dim \div N, the first output_dim % N one   *)
(* wider.                                                                  *)
C2_Slices ==
  ret # None =>
    LET slices == ret[1]
        N == Len(slices)
        output_dim == embeddings[1].output_dim
    IN /\ N >= 1
       /\ N <= Min(world_size, output_dim)
       /\ SumSeq(List([i \in 1..N |-> slices[i].output_dim])) = output_dim
       /\ \A i \in 1..N :
            /\ slices[i].output_dim >= 1
            /\ slices[i].input_dim = embeddings[1].input_dim
            /\ slices[i].output_dim =
                 (output_dim \div N) + (IF i - 1 < output_dim % N THEN 1 ELSE 0)

\* a table cut into at least three slices of unequal width
C2_Witness ==
  /\ ret # None
  /\ Len(ret[1]) >= 3
  /\ ret[1][1].output_dim > ret[1][Len(ret[1])].output_dim

\* the power-of-two slice count reached by the doubling loop of
\* maybe_slice_table_column before min(num_slices, world_size, output_dim);
\* with threshold 0 the loop runs past every table size
doubled_num_slices(orig_config, threshold) ==
  num_slices_loop(orig_config.input_dim * orig_config.output_dim, threshold, 1,
                  2 * orig_config.input_dim * orig_config.output_dim)

(* C11: column_slice_threshold is an upper bound on slice size: for a table *)
(* with input_dim * output_dim > threshold whose power-of-two slice count N *)
(* is not reduced by the cap (N <= min(world_size, output_dim)), every      *)
(* slice returned by maybe_slice_table_column has                           *)
(* input_dim * slice_output_dim <= column_slice_threshold.                  *)
C11_ThresholdBound ==
  (ret # None /\ column_slice_threshold # None) =>
    LET threshold == column_slice_threshold[1]
        orig_config == embeddings[1]
        N == doubled_num_slices(orig_config, threshold)
    IN (/\ orig_config.input_dim * orig_config.output_dim > threshold
        /\ N <= Min(world_size, orig_config.output_dim)) =>
         \A i \in 1..Len(ret[1]) :
           ret[1][i].input_dim * ret[1][i].output_dim <= threshold

(***************************************************************************)
(* Claims about set_weights and get_weights.                               *)
(***************************************************************************)
(* C3: after all workers have called set_weights(weights) with the same    *)
(* full tables, what get_weights returns on rank 0, and on every rank when *)
(* all_ranks is set, is the list of the full tables in global table order, *)
(* each with its columns in the original order, for every world_size,      *)
(* strategy and column_slice_threshold.                                    *)
C3_WeightRoundTrip ==
  \A r \in Ranks :
    (r + 1 \in DOMAIN ret /\ ret[r + 1] # None /\ (r = 0 \/ all_ranks)) =>
      ret[r + 1][1] = weights

\* rank 0 got the tables back in a plan where a worker holds two slices of
\* one table and a table is cut into unequal slices
C3_Witness ==
  /\ world_size > 1
  /\ ret[1] # None
  /\ \E w \in 1..world_size :
       LET ids == objs[1].strategy.table_ids_list[w]
       IN \E i, j \in 1..Len(ids) : i < j /\ ids[i] = ids[j]
  /\ \E w \in 1..world_size :
       LET configs == objs[1].strategy.local_configs_list[w]
       IN \E i \in 1..Len(configs) : configs[i].output_dim = 2

(***************************************************************************)
(* Claims about the forward pass.                                          *)
(***************************************************************************)
\* what a single worker holding the full tables returns for rank r's batch
SingleWorkerOutputs(r) ==
  call_single(weights, MapOf(input_table_map, Len(embeddings)), inputs[r + 1])

(* C4: with equal per-worker batch size, for every input_table_map,        *)
(* strategy and column_slice_threshold, call() on each worker returns one  *)
(* output per input, in input order, output k holding for the worker's own *)
(* batch rows the full-width rows of table input_table_map[k]: the values  *)
(* a single-worker run returns for the same indices.  No call raises.      *)
C4_ForwardRoundTrip ==
  \A r \in Ranks :
    /\ pc[r + 1] # "raised"
    /\ ret[r + 1] # None => ret[r + 1][1] = SingleWorkerOutputs(r)

\* the part of C4 that does hold: whatever a call returns is the
\* single-worker result for the same indices
ReturnedOutputsAreRight ==
  \A r \in Ranks : ret[r + 1] # None => ret[r + 1][1] = SingleWorkerOutputs(r)

\* a call returned sliced, reordered outputs on several workers
ReturnedOutputsReached ==
  /\ world_size > 1
  /\ input_table_map # None
  /\ ret[2] # None
  /\ objs[1].strategy.sliced_out_ranges # <<>>

(***************************************************************************)
(* Claims about gradient routing and lock-step loading.                    *)
(***************************************************************************)
(* C8: the list gradient() returns has the length of the sources; entry i  *)
(* is, for a source with synchronization NONE, the worker's own gradient   *)
(* divided by the world size, and otherwise the average over all workers   *)
(* of source i's gradient; only the gradients of the other sources are     *)
(* handed to an allreduce, one per call in source order, all of them by    *)
(* the time gradient() returns.                                            *)
C8_GradientRouting ==
  \A r \in Ranks :
    /\ (r + 1 \in DOMAIN ret /\ ret[r + 1] # None) =>
         /\ Len(ret[r + 1][1]) = Len(sources)
         /\ \A i \in 1..Len(sources) :
              IF sources[i].synchronization = "NONE"
              THEN /\ ret[r + 1][1][i].values
                        = Quotient(gradients[r + 1][i].values, world_size)
                   /\ ret[r + 1][1][i].kind = gradients[r + 1][i].kind
                   /\ ret[r + 1][1][i].indices = gradients[r + 1][i].indices
              ELSE ret[r + 1][1][i]
                     = Tensor(Quotient(
                         SumSeq(List([q \in 1..world_size |-> gradients[q][i].values])),
                         world_size))
    /\ (comm # <<>> /\ r + 1 \in DOMAIN comm[1] /\ comm[1][r + 1] # None) =>
         LET dp == {i \in 1..Len(sources) : sources[i].synchronization # "NONE"}
         IN /\ Len(comm[1][r + 1][1]) <= Cardinality(dp)
            /\ ret[r + 1] # None => Len(comm[1][r + 1][1]) = Cardinality(dp)
            /\ \A k \in 1..Len(comm[1][r + 1][1]) :
                 \E i \in dp : /\ Cardinality({j \in dp : j < i}) = k - 1
                               /\ comm[1][r + 1][1][k] = gradients[r + 1][i]

\* on several workers, sources [dp, mp, dp] with three different gradients
C8_Witness ==
  /\ world_size > 1
  /\ Len(sources) = 3
  /\ sources[1].synchronization = "AUTO"
  /\ sources[2].synchronization = "NONE"
  /\ sources[3].synchronization = "AUTO"
  /\ gradients[1][1] # gradients[1][3]
  /\ ret[world_size] # None

(* C9: when every worker calls set_weights with use_lock=True, at most one *)
(* worker is inside the weight-assignment section at any time, and a       *)
(* worker is inside or past it, whether it left it normally or by an       *)
(* exception, only when all workers of lower rank have left it and gone on *)
(* to their broadcasts after loading.                                      *)
C9_LockStep ==
  use_lock =>
    /\ Cardinality({r \in Ranks : pc[r + 1] = "assign"}) <= 1
    /\ \A r \in Ranks :
         pc[r + 1] \in {"assign", "post", "post_wait", "done"} \cup Raises =>
           \A q \in 0..(r - 1) : pc[q + 1] \in {"post", "post_wait", "done"}

\* with the lock, the last of several workers is loading
C9_Witness ==
  /\ use_lock
  /\ world_size = MaxWorld
  /\ pc[world_size] = "assign"
  /\ variables[1] # InitialVariables(objs[1])

(* C12: when every worker calls set_weights with use_lock=True, under fair *)
(* scheduling every worker eventually returns from set_weights, having     *)
(* issued exactly world_size broadcast calls, rank of them before loading; *)
(* no worker is left waiting in a broadcast.                               *)
C12_LockStepTerminates ==
  use_lock ~>
    \A r \in Ranks :
      /\ pc[r + 1] = "done"
      /\ ret[r + 1] # None
      /\ issued[r + 1] = world_size

\* what the code does keep under fair scheduling: either every worker
\* returns after world_size broadcasts, or a worker has raised inside the
\* assignment section and every worker of higher rank waits in a broadcast
\* before loading that is never matched
LockStepTerminatesUnlessRaised ==
  use_lock ~>
    \/ \A r \in Ranks :
         /\ pc[r + 1] = "done"
         /\ ret[r + 1] # None
         /\ issued[r + 1] = world_size
    \/ \E q \in Ranks :
         /\ pc[q + 1] \in Raises
         /\ ret[q + 1] = None
         /\ issued[q + 1] = q
         /\ \A r \in 0..(q - 1) : pc[r + 1] = "post_wait" /\ issued[r + 1] = q + 1
         /\ \A r \in (q + 1)..(world_size - 1) : pc[r + 1] = "pre_wait" /\ issued[r + 1] = q + 1

\* all of several workers have returned, each after world_size broadcasts
AllReturned ==
  /\ use_lock
  /\ world_size = MaxWorld
  /\ \A r \in Ranks : pc[r + 1] = "done" /\ issued[r + 1] = world_size

\* the middle worker of three has raised; the others wait in a broadcast
RaisedAndBlocked ==
  /\ use_lock
  /\ world_size = 3
  /\ pc[2] \in Raises
  /\ pc[1] = "post_wait"
  /\ pc[3] = "pre_wait"

(***************************************************************************)
(* Claims about the chunks of get_weights.                                 *)
(***************************************************************************)
RECURSIVE sum_at_most(_, _)
\* the sum of the numbers of a list is at most limit, taken without a sum
\* that leaves 32 bits
sum_at_most(sizes, limit) ==
  IF sizes = <<>> THEN TRUE
  ELSE sizes[1] <= limit /\ sum_at_most(Tail(sizes), limit - sizes[1])

\* the sizes of the chunks the workers hand to the i-th weight all-gather
gathered_sizes(i) == List([w \in 1..world_size |-> comm[1][w][1][i]])

(* C13: in get_weights with world_size > 1, for every chunk index i the   *)
(* number of elements all-gathered in the i-th call, the sum over all      *)
(* workers of their i-th chunk size, is at most the chunking threshold of  *)
(* 2,000,000,000 elements, and every worker issues the same number         *)
(* num_chunks of weight all-gathers.                                       *)
C13_ChunksUnderThreshold ==
  (world_size > 1 /\ \A q \in Ranks : comm[1][q + 1] # None) =>
    /\ \A q \in Ranks : Len(comm[1][q + 1][1]) = Len(comm[1][1][1])
    /\ \A q \in Ranks : pc[q + 1] = "gathered" => issued[q + 1] = Len(comm[1][1][1])
    /\ \A i \in 1..Len(comm[1][1][1]) :
         (\A q \in Ranks : issued[q + 1] >= i) =>
           sum_at_most(gathered_sizes(i), chunking_threshold)

=============================================================================
